---- MODULE Spec2Model ----
(***************************************************************************)
(* A model of the SAM 3D serverless worker, src/handler.py: one worker     *)
(* process that runs handler(job) for one job after another.  The process  *)
(* state is the module-level handle inference_pipeline; everything else    *)
(* is local to one handler call.  A handler call is a chain of steps, one  *)
(* action each, in the order of the source.                                *)
(*                                                                         *)
(* Rasters.  A PIL image of mode "L" is [size |-> <<w, h>>, px |-> p],     *)
(* p[r][c] the sample in row r (1 = top) and column c (1 = left).  A numpy *)
(* array is [shape |-> <<h, w>>, px |-> p].  The RGB image is carried by   *)
(* its size alone: no step of the handler reads or writes its samples.     *)
(***************************************************************************)
EXTENDS Integers, Sequences, FiniteSets

VARIABLES
    inference_pipeline, \* the module-level handle: None, or the n-th Inference object
    constructed,        \* how many Inference objects were constructed so far
    pc,                 \* where the current handler call is
    job,                \* the job of the current handler call
    pipeline_at_entry,  \* inference_pipeline when the current call began
    calls,              \* what the current call has called so far
    applied,            \* the operations the current call applied to the mask
    image_pil,          \* local image_pil
    mask_pil,           \* local mask_pil
    image,              \* local image (numpy array of the image)
    mask_np,            \* local mask_np
    mask,               \* local mask
    seed,               \* local seed
    output,             \* local output, what the pipeline returned
    fault,              \* the message of the exception raised in this call, if any
    result,             \* what the call returned
    first,              \* the mask of the call whose aligned pair this job resubmits
    after_failed_init   \* whether init_model failed in the call before this one

vars == <<inference_pipeline, constructed, pc, job, pipeline_at_entry, calls,
          applied, image_pil, mask_pil, image, mask_np, mask, seed, output,
          fault, result, first, after_failed_init>>

(***************************************************************************)
(* Bounds of the model.                                                    *)
(***************************************************************************)
MaxDim == 3       \* widths and heights are 1..MaxDim
MaxSamples == 6   \* a submitted mask holds at most MaxSamples samples

(***************************************************************************)
(* Program constants.                                                      *)
(***************************************************************************)
Threshold == 128
DefaultSeed == 42

None == 0

\* The sample values of the masks that are submitted: the two sides of the
\* threshold in every position, and every value 0..255 in one-sample masks.
GridVals == {Threshold, Threshold + 1}
SampleVals == 0..255
\* The EXIF orientation tags of the submitted pairs, <<image's, mask's>>.
ExifPairs == {<<1, 1>>, <<6, 1>>, <<1, 6>>}
JobSeeds == {7}

Sizes == (1..MaxDim) \X (1..MaxDim)

NoRaster == [size |-> <<0, 0>>, px |-> <<>>]
NoImage == [size |-> <<0, 0>>]
NoArray == [shape |-> <<>>, px |-> <<>>]
NoFault == ""
NoResult == [pending |-> "pending"]
NoOutput == {"pending"}
NoJob == [kind |-> "none"]
Absent == [kind |-> "absent"]
Undecodable == [kind |-> "bad"]

Width(im) == im.size[1]
Height(im) == im.size[2]

(***************************************************************************)
(* PIL's Image.transpose methods on a mode "L" raster (libImaging          *)
(* Geometry.c).  ROTATE_90 turns the raster a quarter turn counter-        *)
(* clockwise, ROTATE_270 a quarter turn clockwise.                         *)
(***************************************************************************)
FLIP_LEFT_RIGHT(im) ==
    LET w == Width(im)  h == Height(im)
    IN  [size |-> <<w, h>>,
         px |-> [r \in 1..h |-> [c \in 1..w |-> im.px[r][w + 1 - c]]]]

FLIP_TOP_BOTTOM(im) ==
    LET w == Width(im)  h == Height(im)
    IN  [size |-> <<w, h>>,
         px |-> [r \in 1..h |-> [c \in 1..w |-> im.px[h + 1 - r][c]]]]

ROTATE_180(im) ==
    LET w == Width(im)  h == Height(im)
    IN  [size |-> <<w, h>>,
         px |-> [r \in 1..h |-> [c \in 1..w |-> im.px[h + 1 - r][w + 1 - c]]]]

TRANSPOSE(im) ==
    LET w == Width(im)  h == Height(im)
    IN  [size |-> <<h, w>>,
         px |-> [r \in 1..w |-> [c \in 1..h |-> im.px[c][r]]]]

TRANSVERSE(im) ==
    LET w == Width(im)  h == Height(im)
    IN  [size |-> <<h, w>>,
         px |-> [r \in 1..w |-> [c \in 1..h |-> im.px[h + 1 - c][w + 1 - r]]]]

ROTATE_270(im) ==
    LET w == Width(im)  h == Height(im)
    IN  [size |-> <<h, w>>,
         px |-> [r \in 1..w |-> [c \in 1..h |-> im.px[h + 1 - c][r]]]]

\* ROTATE_90 with the methods mixed up: a half turn, which keeps the size.
ROTATE_90_HalfTurn(im) == ROTATE_180(im)

\* ROTATE_90 turning the other way.
ROTATE_90_Clockwise(im) == ROTATE_270(im)

ROTATE_90(im) ==
    LET w == Width(im)  h == Height(im)
    IN  [size |-> <<h, w>>,
         px |-> [r \in 1..w |-> [c \in 1..h |-> im.px[c][w + 1 - r]]]]

(***************************************************************************)
(* ImageOps.exif_transpose: the EXIF orientation tag picks the transpose   *)
(* method; tag 1, or no tag, leaves the raster as it is.                   *)
(***************************************************************************)
exif_transpose(im, tag) ==
    CASE tag = 2 -> FLIP_LEFT_RIGHT(im)
      [] tag = 3 -> ROTATE_180(im)
      [] tag = 4 -> FLIP_TOP_BOTTOM(im)
      [] tag = 5 -> TRANSPOSE(im)
      [] tag = 6 -> ROTATE_270(im)
      [] tag = 7 -> TRANSVERSE(im)
      [] tag = 8 -> ROTATE_90(im)
      [] OTHER   -> im

\* The same on the RGB image, which is carried by its size.
exif_transpose_size(im, tag) ==
    IF tag \in {5, 6, 7, 8} THEN [size |-> <<im.size[2], im.size[1]>>] ELSE im

(***************************************************************************)
(* Image.resize(size, resample=NEAREST): the output sample of 0-based      *)
(* column x is the input sample of column floor((x + 1/2) * w_in / w_out), *)
(* and likewise for rows.                                                  *)
(***************************************************************************)
NearestIndex(i, nIn, nOut) == (((2 * (i - 1) + 1) * nIn) \div (2 * nOut)) + 1

\* resize that leaves the raster as it is.
resize_Skipped(im, size) == im

resize(im, size) ==
    [size |-> size,
     px |-> [r \in 1..size[2] |-> [c \in 1..size[1] |->
                im.px[NearestIndex(r, Height(im), size[2])]
                     [NearestIndex(c, Width(im), size[1])]]]]

(***************************************************************************)
(* np.array(pil) and (mask_np > 128).astype(np.uint8)                      *)
(***************************************************************************)
ToArray(im) == [shape |-> <<Height(im), Width(im)>>, px |-> im.px]
ImageArrayShape(im) == <<im.size[2], im.size[1], 3>>

\* The threshold test with >= for >.
Binarize_Inclusive(v) == IF v >= Threshold THEN 1 ELSE 0

\* The threshold test against 0.
Binarize_NonZero(v) == IF v > 0 THEN 1 ELSE 0

Binarize(v) == IF v > Threshold THEN 1 ELSE 0

BinarizeArray(a) ==
    [shape |-> a.shape,
     px |-> [r \in DOMAIN a.px |-> [c \in DOMAIN a.px[r] |-> Binarize(a.px[r][c])]]]

\* mask[:, :, 0] when the mask has more than two dimensions
EnsureTwoDim(a) ==
    IF Len(a.shape) > 2
    THEN [shape |-> <<a.shape[1], a.shape[2]>>,
          px |-> [r \in DOMAIN a.px |-> [c \in DOMAIN a.px[r] |-> a.px[r][c][1]]]]
    ELSE a

(***************************************************************************)
(* The jobs the worker is handed.  job.kind says what job.get("input", {}) *)
(* yields: "dict" a dictionary with the keys job.keys, "absent" the        *)
(* default {} (no "input" key), "null" a value that is no container (JSON  *)
(* null or a number), on which the test "image" not in job_input raises    *)
(* TypeError.                                                              *)
(***************************************************************************)
Grids(w, h, V) == [1..h -> [1..w -> V]]

GridRasters ==
    UNION {{[size |-> s, px |-> g] : g \in Grids(s[1], s[2], GridVals)} :
           s \in {t \in Sizes : t[1] * t[2] <= MaxSamples}}

SampleRasters == {[size |-> <<1, 1>>, px |-> <<<<v>>>>] : v \in SampleVals}

EncodedImage(s, t) == [kind |-> "img", size |-> s, exif |-> t]
EncodedMask(ras, t) == [kind |-> "img", size |-> ras.size, px |-> ras.px, exif |-> t]

DictJob(k, im, ma, sd) ==
    [kind |-> "dict", keys |-> k, image |-> im, mask |-> ma, seed |-> sd]

GridJobs ==
    {DictJob({"image", "mask"}, EncodedImage(s, t[1]), EncodedMask(ras, t[2]), None) :
        s \in Sizes, ras \in GridRasters, t \in ExifPairs}

SeededJobs ==
    {DictJob({"image", "mask", "seed"}, EncodedImage(<<1, 1>>, 1),
             EncodedMask(ras, 1), sd) :
        ras \in {x \in GridRasters : x.size = <<1, 1>>}, sd \in JobSeeds}

SampleJobs ==
    {DictJob({"image", "mask"}, EncodedImage(s, 1), EncodedMask(ras, 1), None) :
        s \in {<<1, 1>>, <<1, 2>>, <<2, 1>>}, ras \in SampleRasters}

UndecodableJobs ==
    {DictJob({"image", "mask"}, Undecodable,
             EncodedMask([size |-> <<1, 1>>, px |-> <<<<255>>>>], 1), None),
     DictJob({"image", "mask"}, EncodedImage(<<1, 1>>, 1), Undecodable, None)}

IncompleteJobs ==
    {DictJob(k,
             IF "image" \in k THEN EncodedImage(<<1, 1>>, 1) ELSE Absent,
             IF "mask" \in k
                THEN EncodedMask([size |-> <<1, 1>>, px |-> <<<<255>>>>], 1)
                ELSE Absent,
             IF "seed" \in k THEN sd ELSE None) :
        k \in {x \in SUBSET {"image", "mask", "seed"} : ~({"image", "mask"} \subseteq x)},
        sd \in JobSeeds}

NoInputJob == [kind |-> "absent", keys |-> {}, image |-> Absent, mask |-> Absent,
               seed |-> None]
NullInputJob == [kind |-> "null", keys |-> {}, image |-> Absent, mask |-> Absent,
                 seed |-> None]

Jobs == GridJobs \cup SeededJobs \cup SampleJobs \cup UndecodableJobs \cup IncompleteJobs
            \cup {NoInputJob, NullInputJob}

(***************************************************************************)
(* Messages and results.                                                   *)
(***************************************************************************)
ValidationMessage == "Input must contain 'image' and 'mask' base64 strings."
NoGlbMessage == "Model failed to generate GLB output."
TypeErrorMessage == "argument of type 'NoneType' is not iterable"
DecodeMessage == "cannot identify image file"
ConstructMessage == "Inference could not be constructed"
PipelineMessage == "the pipeline raised"
ExportMessage == "the mesh could not be exported"
KeyErrorMessage == "'glb'"
StageMessage == "unanticipated fault"
NotFoundMessage(base) ==
    IF base = "/runpod-volume"
    THEN "Could not find pipeline.yaml in /runpod-volume subdirectories."
    ELSE "Could not find pipeline.yaml in /workspace subdirectories."

ErrorResult(msg) == [error |-> msg]
GlbResult(b64) == [glb_file |-> b64]

\* The request test with "and" for "or": only a job lacking both keys is refused.
MissingRequired_Both(keys) == "image" \notin keys /\ "mask" \notin keys

MissingRequired(keys) == "image" \notin keys \/ "mask" \notin keys

\* The guard of init_model left out.
AlreadyInitialized_Never(handle) == FALSE

AlreadyInitialized(handle) == handle # None

\* The test of the output left out: the mesh is read whatever the output holds.
HasGlb_Always(out) == TRUE

HasGlb(out) == "glb" \in out

\* init_model's search: the first of the three conventional places that
\* exists, else the fallback path if it exists, else nothing (0).
ConfigPath(present, fallback) ==
    IF present # {} THEN CHOOSE i \in present : \A k \in present : i <= k
    ELSE IF fallback THEN 4 ELSE 0

Outputs == {{"glb", "gs"}, {"gs"}}

(***************************************************************************)
(* The worker.                                                             *)
(***************************************************************************)
Init ==
    /\ inference_pipeline = None
    /\ constructed = 0
    /\ pc = "idle"
    /\ job = NoJob
    /\ pipeline_at_entry = None
    /\ calls = {}
    /\ applied = {}
    /\ image_pil = NoImage
    /\ mask_pil = NoRaster
    /\ image = NoArray
    /\ mask_np = NoArray
    /\ mask = NoArray
    /\ seed = None
    /\ output = NoOutput
    /\ fault = NoFault
    /\ result = NoResult
    /\ first = NoArray
    /\ after_failed_init = FALSE

\* except Exception as e: return {"error": str(e)}
Caught(msg) ==
    /\ fault' = msg
    /\ result' = ErrorResult(msg)
    /\ pc' = "returned"

\* handler(j) is entered and inspects the request (lines 85-89, before the try).
Begin(j, f, failed) ==
    /\ job' = j
    /\ first' = f
    /\ after_failed_init' = failed
    /\ pipeline_at_entry' = inference_pipeline
    /\ calls' = {}
    /\ applied' = {}
    /\ image_pil' = NoImage
    /\ mask_pil' = NoRaster
    /\ image' = NoArray
    /\ mask_np' = NoArray
    /\ mask' = NoArray
    /\ seed' = None
    /\ output' = NoOutput
    /\ IF j.kind = "null"
       THEN /\ pc' = "raised"
            /\ fault' = TypeErrorMessage
            /\ result' = NoResult
       ELSE IF MissingRequired(j.keys)
       THEN /\ pc' = "returned"
            /\ fault' = NoFault
            /\ result' = ErrorResult(ValidationMessage)
       ELSE /\ pc' = "init_model"
            /\ fault' = NoFault
            /\ result' = NoResult
    /\ UNCHANGED <<inference_pipeline, constructed>>

Handler_Begin ==
    /\ pc = "idle"
    /\ \E j \in Jobs : Begin(j, NoArray, after_failed_init)

\* The aligned pair of the call that just ended, submitted as the next job:
\* the image and the 0/1 mask, encoded without an orientation tag.
Resubmit ==
    /\ pc = "returned"
    /\ mask # NoArray
    /\ Begin(DictJob({"image", "mask"},
                     EncodedImage(<<image.shape[2], image.shape[1]>>, 1),
                     EncodedMask([size |-> <<mask.shape[2], mask.shape[1]>>,
                                  px |-> mask.px], 1),
                     None),
             mask, FALSE)

\* init_model() (lines 35-76), called at line 92.
InitModel ==
    /\ pc = "init_model"
    /\ IF AlreadyInitialized(inference_pipeline)
       THEN /\ calls' = calls \cup {"init_model"}
            /\ pc' = "decode"
            /\ UNCHANGED <<inference_pipeline, constructed, fault, result>>
       ELSE \E volume \in BOOLEAN, present \in SUBSET (1..3), fallback \in BOOLEAN,
               built \in BOOLEAN :
            LET base == IF volume THEN "/runpod-volume" ELSE "/workspace"
                config_path == ConfigPath(present, fallback)
            IN  IF config_path = 0
                THEN /\ calls' = calls \cup {"init_model", "search"}
                     /\ Caught(NotFoundMessage(base))
                     /\ UNCHANGED <<inference_pipeline, constructed>>
                ELSE IF ~built
                THEN /\ calls' = calls \cup {"init_model", "search", "Inference"}
                     /\ Caught(ConstructMessage)
                     /\ UNCHANGED <<inference_pipeline, constructed>>
                ELSE /\ calls' = calls \cup {"init_model", "search", "Inference"}
                     /\ inference_pipeline' = constructed + 1
                     /\ constructed' = constructed + 1
                     /\ pc' = "decode"
                     /\ UNCHANGED <<fault, result>>
    /\ UNCHANGED <<job, pipeline_at_entry, applied, image_pil, mask_pil, image,
                   mask_np, mask, seed, output, first, after_failed_init>>

\* 1. Decode inputs to PIL (lines 95-96): decode_base64_image, lines 78-81.
Decode ==
    /\ pc = "decode"
    /\ IF job.image.kind # "img" \/ job.mask.kind # "img"
       THEN /\ Caught(DecodeMessage)
            /\ UNCHANGED <<image_pil, mask_pil>>
       ELSE /\ image_pil' = [size |-> job.image.size]
            /\ mask_pil' = [size |-> job.mask.size, px |-> job.mask.px]
            /\ pc' = "exif"
            /\ UNCHANGED <<fault, result>>
    /\ UNCHANGED <<inference_pipeline, constructed, job, pipeline_at_entry, calls,
                   applied, image, mask_np, mask, seed, output, first, after_failed_init>>

\* 2. Apply EXIF Rotation (lines 99-100).
ExifTranspose ==
    /\ pc = "exif"
    /\ image_pil' = exif_transpose_size(image_pil, job.image.exif)
    /\ mask_pil' = exif_transpose(mask_pil, job.mask.exif)
    /\ pc' = "rotate"
    /\ UNCHANGED <<inference_pipeline, constructed, job, pipeline_at_entry, calls,
                   applied, image, mask_np, mask, seed, output, fault, result, first, after_failed_init>>

\* 3. Smart Rotation Check (lines 104-108).
SmartRotate ==
    /\ pc = "rotate"
    /\ IF image_pil.size = <<mask_pil.size[2], mask_pil.size[1]>>
       THEN LET turned == ROTATE_90(mask_pil)
            IN  IF image_pil.size # turned.size
                THEN /\ mask_pil' = ROTATE_180(turned)
                     /\ applied' = applied \cup {"ROTATE_90", "ROTATE_180"}
                ELSE /\ mask_pil' = turned
                     /\ applied' = applied \cup {"ROTATE_90"}
       ELSE UNCHANGED <<mask_pil, applied>>
    /\ pc' = "resize"
    /\ UNCHANGED <<inference_pipeline, constructed, job, pipeline_at_entry, calls,
                   image_pil, image, mask_np, mask, seed, output, fault, result, first, after_failed_init>>

\* 4. Final Safety Resize (lines 112-114).
SafetyResize ==
    /\ pc = "resize"
    /\ IF image_pil.size # mask_pil.size
       THEN /\ mask_pil' = resize(mask_pil, image_pil.size)
            /\ applied' = applied \cup {"resize"}
       ELSE UNCHANGED <<mask_pil, applied>>
    /\ pc' = "binarize"
    /\ UNCHANGED <<inference_pipeline, constructed, job, pipeline_at_entry, calls,
                   image_pil, image, mask_np, mask, seed, output, fault, result, first, after_failed_init>>

\* 5. Convert to NumPy Arrays, 6. Binarize and Ensure 2D, and the seed
\* (lines 117-127).
ToArrays ==
    /\ pc = "binarize"
    /\ image' = [shape |-> ImageArrayShape(image_pil), px |-> <<>>]
    /\ mask_np' = ToArray(mask_pil)
    /\ mask' = EnsureTwoDim(BinarizeArray(ToArray(mask_pil)))
    /\ seed' = IF "seed" \in job.keys THEN job.seed ELSE DefaultSeed
    /\ pc' = "infer"
    /\ UNCHANGED <<inference_pipeline, constructed, job, pipeline_at_entry, calls,
                   applied, image_pil, mask_pil, output, fault, result, first, after_failed_init>>

\* Run Inference (line 130): the pipeline returns a dictionary or raises.
RunInference ==
    /\ pc = "infer"
    /\ calls' = calls \cup {"inference_pipeline"}
    /\ \/ \E out \in Outputs :
            /\ output' = out
            /\ pc' = "export"
            /\ UNCHANGED <<fault, result>>
       \/ /\ Caught(PipelineMessage)
          /\ UNCHANGED output
    /\ UNCHANGED <<inference_pipeline, constructed, job, pipeline_at_entry, applied,
                   image_pil, mask_pil, image, mask_np, mask, seed, first, after_failed_init>>

\* Export GLB to buffer (lines 133-154).
Export ==
    /\ pc = "export"
    /\ IF HasGlb(output)
       THEN IF "glb" \in output
            THEN \/ /\ calls' = calls \cup {"export"}
                    /\ result' = GlbResult("glb")
                    /\ pc' = "returned"
                    /\ UNCHANGED fault
                 \/ /\ calls' = calls \cup {"export"}
                    /\ Caught(ExportMessage)
            ELSE /\ Caught(KeyErrorMessage)
                 /\ UNCHANGED calls
       ELSE /\ result' = ErrorResult(NoGlbMessage)
            /\ pc' = "returned"
            /\ UNCHANGED <<calls, fault>>
    /\ UNCHANGED <<inference_pipeline, constructed, job, pipeline_at_entry, applied,
                   image_pil, mask_pil, image, mask_np, mask, seed, output, first, after_failed_init>>

\* Any other exception raised inside the try block (lines 91-159).
Except ==
    /\ pc \in {"decode", "exif", "rotate", "resize", "binarize",
               "infer", "export"}
    /\ Caught(StageMessage)
    /\ UNCHANGED <<inference_pipeline, constructed, job, pipeline_at_entry, calls,
                   applied, image_pil, mask_pil, image, mask_np, mask, seed, output,
                   first, after_failed_init>>

\* The call is over: the worker loop (line 197) has its outcome, the locals of
\* the call are gone, and the worker is ready for the next job.
Finish ==
    /\ pc \in {"returned", "raised"}
    /\ pc' = "idle"
    /\ job' = NoJob
    /\ pipeline_at_entry' = None
    /\ calls' = {}
    /\ applied' = {}
    /\ image_pil' = NoImage
    /\ mask_pil' = NoRaster
    /\ image' = NoArray
    /\ mask_np' = NoArray
    /\ mask' = NoArray
    /\ seed' = None
    /\ output' = NoOutput
    /\ fault' = NoFault
    /\ result' = NoResult
    /\ first' = NoArray
    /\ after_failed_init' = ("search" \in calls /\ inference_pipeline = None)
    /\ UNCHANGED <<inference_pipeline, constructed>>

Next ==
    \/ Handler_Begin
    \/ Resubmit
    \/ InitModel
    \/ Decode
    \/ ExifTranspose
    \/ SmartRotate
    \/ SafetyResize
    \/ ToArrays
    \/ RunInference
    \/ Export
    \/ Except
    \/ Finish

Spec == Init /\ [][Next]_vars

(***************************************************************************)
(* What the claims speak of.                                               *)
(***************************************************************************)
InCall == job.kind \in {"dict", "absent", "null"}

\* The call has a complete request whose two inputs decode.
Decodable ==
    /\ job.kind = "dict"
    /\ {"image", "mask"} \subseteq job.keys
    /\ job.image.kind = "img"
    /\ job.mask.kind = "img"

\* The mask and the image size after orientation normalization.
Upright == exif_transpose([size |-> job.mask.size, px |-> job.mask.px], job.mask.exif)
UprightImageSize == exif_transpose_size([size |-> job.image.size], job.image.exif).size

Samples(a) == {a.px[r][c] : r \in 1..a.shape[1], c \in 1..a.shape[2]}

\* C1: a job whose input lacks 'image' or lacks 'mask' (or that has no
\* 'input') gets exactly the validation error, and nothing else happens:
\* init_model is not called, the handle is the one the call found, the
\* pipeline is not invoked, no local of the later steps is set.
C1_IncompleteRequestRefused ==
    (job.kind \in {"dict", "absent"}
        /\ ("image" \notin job.keys \/ "mask" \notin job.keys))
    => /\ pc = "returned"
       /\ result = [error |-> "Input must contain 'image' and 'mask' base64 strings."]
       /\ calls = {}
       /\ inference_pipeline = pipeline_at_entry
       /\ mask_pil = NoRaster /\ mask = NoArray /\ output = NoOutput

C1_Witness ==
    /\ pc = "returned"
    /\ job.kind = "dict"
    /\ job.keys = {"image", "seed"}
    /\ inference_pipeline # None
    /\ result = ErrorResult(ValidationMessage)

\* C2: when the pipeline is invoked the mask has two dimensions, its
\* (height, width) is the image's, and every sample is 0 or 1.
C2_AlignedWhenInvoked ==
    (pc = "infer" \/ (InCall /\ "inference_pipeline" \in calls))
    => /\ Len(mask.shape) = 2
       /\ Len(image.shape) = 3
       /\ mask.shape = <<image.shape[1], image.shape[2]>>
       /\ image.shape = <<UprightImageSize[2], UprightImageSize[1], 3>>
       /\ DOMAIN mask.px = 1..image.shape[1]
       /\ \A r \in DOMAIN mask.px : DOMAIN mask.px[r] = 1..image.shape[2]
       /\ Samples(mask) \subseteq {0, 1}

\* An unrelated pair: the mask is neither of the image's size nor of the
\* swapped size, and the pipeline receives a mask holding both 0 and 1.
C2_Witness ==
    /\ pc = "infer"
    /\ Upright.size # UprightImageSize
    /\ Upright.size # <<UprightImageSize[2], UprightImageSize[1]>>
    /\ applied = {"resize"}
    /\ Samples(mask) = {0, 1}

\* C3: a pair whose sizes match after orientation normalization keeps its
\* mask in place: same dimensions, and the sample at (row, col) is the
\* binarization of the input sample at (row, col).
C3_MatchingPairKeptInPlace ==
    (pc = "infer" /\ Decodable /\ Upright.size = UprightImageSize)
    => /\ mask.shape = <<Upright.size[2], Upright.size[1]>>
       /\ \A r \in 1..Upright.size[2], c \in 1..Upright.size[1] :
             mask.px[r][c] = IF Upright.px[r][c] > 128 THEN 1 ELSE 0

\* C4 as stated: the aligned pair put through the handler again gives the
\* same mask.
C4_Idempotent ==
    (pc = "infer" /\ first # NoArray) => mask = first

\* C4 amended: the aligned pair put through the handler again gives a mask
\* of the same dimensions whose samples are all 0, because 0 and 1 both lie
\* at or below the threshold; so it is the first mask only when that holds
\* no 1.
C4_SecondPassAllZero ==
    (pc = "infer" /\ first # NoArray)
    => /\ mask.shape = first.shape
       /\ Samples(mask) = {0}
       /\ (mask = first <=> 1 \notin Samples(first))

C4_Witness ==
    /\ pc = "infer"
    /\ first # NoArray
    /\ Samples(first) = {0, 1}
    /\ first.shape[1] # first.shape[2]

\* C5: the handle is constructed at most once and never reset or replaced;
\* a call in which init_model fails returns an error result and leaves the
\* handle None; the next complete job runs the initialization again.
C5_HandleLifecycle ==
    [][/\ inference_pipeline # None => inference_pipeline' = inference_pipeline
       /\ constructed' <= 1
       /\ constructed' # constructed
            => (inference_pipeline = None /\ inference_pipeline' # None)
       /\ (pc = "init_model" /\ pc' # "decode")
            => /\ pc' = "returned"
               /\ DOMAIN result' = {"error"}
               /\ result' = [error |-> fault']
               /\ inference_pipeline' = None
       /\ (pc = "idle" /\ job'.kind = "dict" /\ {"image", "mask"} \subseteq job'.keys)
            => pc' = "init_model"
       /\ (pc = "init_model" /\ after_failed_init)
            => (inference_pipeline = None /\ "search" \in calls')
       /\ (pc = "init_model" /\ inference_pipeline # None) => "search" \notin calls'
      ]_vars

\* A call that follows a failed initialization has initialized the handle.
C5_Witness ==
    /\ pc = "decode"
    /\ after_failed_init
    /\ pipeline_at_entry = None
    /\ inference_pipeline # None
    /\ constructed = 1
    /\ "Inference" \in calls

\* C6: every call returns, and what it returns is {"glb_file": ...} or
\* {"error": ...}, the error being the message of the fault.
C6_AlwaysReturnsAResult ==
    /\ pc # "raised"
    /\ pc = "returned"
         => /\ DOMAIN result \in {{"glb_file"}, {"error"}}
            /\ fault # NoFault => result = [error |-> fault]

\* C7 as stated: an output without a mesh gives a result with a status.
C7_NoMeshFailedStatus ==
    (pc = "returned" /\ output # NoOutput /\ "glb" \notin output
        /\ fault # StageMessage)
    => result = [status |-> "failed", error |-> "Model failed to generate GLB output."]

\* C7 amended: an output without a mesh gives the result
\* {"error": "Model failed to generate GLB output."}, with no status key.
C7_NoMeshError ==
    (pc = "returned" /\ output # NoOutput /\ "glb" \notin output
        /\ fault # StageMessage)
    => result = [error |-> "Model failed to generate GLB output."]

C7_Witness ==
    /\ pc = "returned"
    /\ "inference_pipeline" \in calls
    /\ output = {"gs"}
    /\ fault = NoFault

\* The pair is not square and the mask's (width, height) is the image's
\* (height, width).
SwappedPair ==
    /\ Decodable
    /\ Upright.size[1] # Upright.size[2]
    /\ UprightImageSize = <<Upright.size[2], Upright.size[1]>>

\* C8 as stated: the mask of a swapped pair is turned a quarter turn
\* clockwise: the input's top-left sample is the output's top-right one.
C8_TurnedClockwise ==
    (pc = "infer" /\ SwappedPair)
    => /\ mask.shape = <<UprightImageSize[2], UprightImageSize[1]>>
       /\ \A r \in 1..mask.shape[1], c \in 1..mask.shape[2] :
             mask.px[r][c] =
                IF Upright.px[Upright.size[2] + 1 - c][r] > 128 THEN 1 ELSE 0

\* C8 amended: the mask of a swapped pair gets the image's dimensions by a
\* quarter turn counter-clockwise (the input's top-left sample is the
\* output's bottom-left one), by that rotation alone.
C8_TurnedCounterClockwise ==
    (pc = "infer" /\ SwappedPair)
    => /\ mask.shape = <<UprightImageSize[2], UprightImageSize[1]>>
       /\ applied = {"ROTATE_90"}
       /\ \A r \in 1..mask.shape[1], c \in 1..mask.shape[2] :
             mask.px[r][c] =
                IF Upright.px[c][Upright.size[1] + 1 - r] > 128 THEN 1 ELSE 0
       /\ mask.px[mask.shape[1]][1] = IF Upright.px[1][1] > 128 THEN 1 ELSE 0

\* A swapped pair whose mask has a 1 in the top-left corner only.
C8_Witness ==
    /\ pc = "infer"
    /\ SwappedPair
    /\ Upright.px[1][1] = 129
    /\ \A r \in 1..Upright.size[2], c \in 1..Upright.size[1] :
          (r # 1 \/ c # 1) => Upright.px[r][c] = 128
    /\ mask.px[mask.shape[1]][1] = 1
    /\ mask.px[1][mask.shape[2]] = 0

\* C9: every output sample is 1 if the sample it comes from is above 128
\* and 0 otherwise.
C9_Binarization ==
    mask # NoArray
    => /\ mask.shape = mask_np.shape
       /\ \A r \in 1..mask_np.shape[1], c \in 1..mask_np.shape[2] :
             mask.px[r][c] = IF mask_np.px[r][c] > 128 THEN 1 ELSE 0

\* 128 and 129 side by side become 0 and 1.
C9_Witness ==
    /\ pc = "infer"
    /\ mask_np.shape = <<1, 2>>
    /\ mask_np.px[1][1] = 128 /\ mask_np.px[1][2] = 129
    /\ mask.px[1][1] = 0 /\ mask.px[1][2] = 1

\* C10: the further half turn never happens: once the mask has been turned
\* a quarter turn its size is the image's.
C10_HalfTurnNeverTaken ==
    /\ "ROTATE_180" \notin applied
    /\ (pc = "resize" /\ "ROTATE_90" \in applied) => mask_pil.size = image_pil.size

C10_Witness ==
    /\ pc = "resize"
    /\ "ROTATE_90" \in applied
    /\ mask_pil.size[1] # mask_pil.size[2]

====
